---- MODULE Spec2Model ----
(***************************************************************************)
(* A model of the storage engine of gcp-storage-emulator                   *)
(* (src/gcp_storage_emulator/storage.py, checksums.py) and of the object   *)
(* request handlers that drive it (handlers/objects.py).                   *)
(*                                                                         *)
(* Python values are written as follows.                                   *)
(*   None            the empty tuple <<>>                                  *)
(*   dict            a function whose DOMAIN is the set of keys            *)
(*   bytes           a sequence over Bytes                                 *)
(*   object key      a sequence of characters, "/" being one of them       *)
(*   optional string [str |-> chars], so that "" and None stay apart       *)
(*   str(n)          <<"str", n>>, and a Python int n is <<"int", n>>      *)
(* The fields of a resource that only record when and where it was made    *)
(* (kind, id, selfLink, mediaLink, generation, timeCreated, updated,       *)
(* timeStorageClassUpdated) are not part of the model: the code writes     *)
(* them once and never reads them.  A dict's iteration order is the fixed  *)
(* order of KeyOrder.                                                      *)
(***************************************************************************)
EXTENDS Integers, Sequences, FiniteSets, TLC

VARIABLES
    buckets,    \* Storage.buckets: bucket name -> bucket resource
    objects,    \* Storage.objects: bucket name -> (object key -> resource)
    resumable,  \* Storage.resumable: session id -> resource skeleton
    multipart,  \* Storage.multipart: upload id -> upload record
    fs,         \* Storage._fs: the snapshot .meta, object files, directories,
                \* and the files of the _resumable and _multipart containers
    clock,      \* the wall clock read by datetime.datetime.now()
    resp,       \* the last request served alone and the response it was given
    calls       \* the requests in progress, one per serving thread

vars == <<buckets, objects, resumable, multipart, fs, clock, resp, calls>>

---------------------------------------------------------------------------
(* Bounds of the model.                                                    *)

\* Longest payload of a chunk of a resumable upload.
MaxLen == 1
\* Longest content of a resumable buffer and of a composed object.
MaxContent == 2
\* Highest metageneration a PATCH is let to reach.
MaxMetageneration == 3
\* Clock readings are 1..MaxClock.
MaxClock == 2
\* Part numbers tried by complete_multipart_upload are 1..MaxPartNumber; the
\* code tries 1..10000 (storage.py line 321).
MaxPartNumber == 3
\* Live upload sessions of each kind.
MaxSessions == 1
\* Items of a batch request.
MaxBatch == 2

BucketNames == {"b1", "b2"}
Bytes == {"x", "y"}
KeyA == <<"a">>
KeyAB == <<"a", "/", "b">>
KeyAC == <<"a", "/", "c">>
\* "a//b": another key, which pyfilesystem reads as the path of "a/b"
KeyAxB == <<"a", "/", "/", "b">>
KeyOrder == <<KeyA, KeyAB, KeyAC>>
Keys == {KeyOrder[i] : i \in 1..Len(KeyOrder)}

\* (bucket, key) pairs that requests name
Targets == {<<"b1", KeyA>>, <<"b1", KeyAB>>, <<"b1", KeyAC>>, <<"b2", KeyA>>}
\* one key
OneKey == {<<"b1", KeyA>>}
\* a key in each of the buckets
TwoBuckets == {<<"b1", KeyA>>, <<"b2", KeyA>>}
\* a key, and a key that needs the first one as a directory
Nested == {<<"b1", KeyA>>, <<"b1", KeyAB>>}
\* two keys under one directory
Siblings == {<<"b1", KeyAB>>, <<"b1", KeyAC>>}
\* one key under a directory
OneNested == {<<"b1", KeyAB>>}
\* two keys that are one path, a sibling of them, and a key of another bucket
Aliases == {<<"b1", KeyAB>>, <<"b1", KeyAxB>>, <<"b1", KeyAC>>, <<"b2", KeyAB>>}

SeqsUpTo(S, n) == UNION {[1..k -> S] : k \in 0..n}
\* the payload of a chunk
Payloads == SeqsUpTo(Bytes, MaxLen)
\* the payload of an upload in one request
UploadPayloads == {<<b>> : b \in Bytes}

---------------------------------------------------------------------------
(* Python values.                                                          *)

None == <<>>
EmptyDict == <<>>
str(n) == <<"str", n>>
IntVal(n) == <<"int", n>>
\* int(s) of a decimal string, and the number a size field stands for
int(s) == s[2]
\* an optional string argument
S(chars) == [str |-> chars]
\* Python truth of an optional value: None and "" are false
Truthy(v) == v # None /\ v # S(<<>>)
\* the characters of an optional string, "" for None (prefix or "")
OrEmpty(v) == IF v = None THEN <<>> ELSE v.str

Get(d, k) == IF k \in DOMAIN d THEN d[k] ELSE None
Put(d, k, v) == [x \in DOMAIN d \cup {k} |-> IF x = k THEN v ELSE d[x]]
Del(d, k) == [x \in DOMAIN d \ {k} |-> d[x]]
\* d1 | d2
Union(d1, d2) == [x \in DOMAIN d1 \cup DOMAIN d2 |-> IF x \in DOMAIN d2 THEN d2[x] ELSE d1[x]]

Take(s, n) == SubSeq(s, 1, IF n < Len(s) THEN n ELSE Len(s))
Drop(s, n) == SubSeq(s, n + 1, Len(s))
startswith(s, p) == Len(p) <= Len(s) /\ SubSeq(s, 1, Len(p)) = p
\* the places where d occurs in s (d not empty)
Occurrences(s, d) == {i \in 1..(Len(s) - Len(d) + 1) : SubSeq(s, i, i + Len(d) - 1) = d}
Contains(s, d) == Occurrences(s, d) # {}
Min(I) == CHOOSE i \in I : \A j \in I : i <= j
Max(I) == CHOOSE i \in I : \A j \in I : i >= j
\* s.split(d, 1)[0]
SplitFirst(s, d) == IF Contains(s, d) THEN SubSeq(s, 1, Min(Occurrences(s, d)) - 1) ELSE s

---------------------------------------------------------------------------
(* checksums.py                                                            *)

\* The digests come from google_crc32c and hashlib; a digest is written as
\* the content it is the digest of, tagged with the algorithm: a function of
\* the content that tells apart all the contents of the model, as CRC-32C
\* and MD5 do for them.
_crc32c(content) == [crc32c |-> content]
_md5(content) == [md5 |-> content]

\* checksums that takes the values the resource carries without comparing
\* them with those of the content
checksums_unverified(content, file_obj) ==
    LET md5_hash == _md5(content)
        o1 == IF ~Truthy(Get(file_obj, "crc32c")) THEN Put(file_obj, "crc32c", _crc32c(content))
              ELSE file_obj
        o2 == IF ~Truthy(Get(o1, "md5Hash")) THEN Put(o1, "md5Hash", md5_hash) ELSE o1
        o3 == IF ~Truthy(Get(o2, "etag")) THEN Put(o2, "etag", md5_hash) ELSE o2
    IN  [raised |-> "", obj |-> o3]

\* checksums(content, file_obj): file_obj is changed in place, also when the
\* call raises Conflict after having set crc32c.
checksums(content, file_obj) ==
    LET crc32c_hash == _crc32c(content)
        obj_crc32c == Get(file_obj, "crc32c")
        md5_hash == _md5(content)
        obj_md5 == Get(file_obj, "md5Hash")
        o1 == IF ~Truthy(obj_crc32c) THEN Put(file_obj, "crc32c", crc32c_hash) ELSE file_obj
        o2 == IF ~Truthy(obj_md5) THEN Put(o1, "md5Hash", md5_hash) ELSE o1
        o3 == IF ~Truthy(Get(o2, "etag")) THEN Put(o2, "etag", md5_hash) ELSE o2
    IN  IF Truthy(obj_crc32c) /\ obj_crc32c # crc32c_hash
        THEN [raised |-> "Conflict", obj |-> file_obj]
        ELSE IF Truthy(obj_md5) /\ obj_md5 # md5_hash
        THEN [raised |-> "Conflict", obj |-> o1]
        ELSE [raised |-> "", obj |-> o3]

---------------------------------------------------------------------------
(* The file system behind Storage._fs (pyfilesystem, on disk or in memory). *)
(* fs.meta is the .meta file (None when absent, else <<snapshot>>);        *)
(* fs.files maps <<bucket, path>> to the bytes of an object file; fs.dirs  *)
(* is the set of directories <<bucket, path>>, the bucket's own directory  *)
(* being <<bucket, <<>>>>; fs.resumable and fs.multipart are the files of  *)
(* the _resumable and _multipart containers.  Every path is normalised as  *)
(* fs.path.normpath does it before the file system looks it up.            *)

EmptyFs == [meta |-> None, files |-> EmptyDict, dirs |-> {},
            resumable |-> EmptyDict, multipart |-> EmptyDict]

\* the last "/" of a path, 0 when it has none
LastSep(path) == IF Contains(path, <<"/">>) THEN Max(Occurrences(path, <<"/">>)) ELSE 0
\* fs.path.dirname and fs.path.basename
dirname(path) == SubSeq(path, 1, LastSep(path) - 1)
basename(path) == Drop(path, LastSep(path))
\* a directory path and the directories above it, inside the bucket
Ancestors(dir) == {SubSeq(dir, 1, i) : i \in {j \in 1..Len(dir) : dir[j] # "/" /\ (j = Len(dir) \/ dir[j + 1] = "/")}}

\* relpath(normpath(path)), as every call on a directory of the file system
\* applies it to its path: empty components are dropped ("a//b" is "a/b",
\* "/a" and "a/" are "a"); no key of the model has a "." or ".." component
normpath(path) ==
    IF path = <<>> \/ (~Contains(path, <<"/", "/">>) /\ path[1] # "/" /\ path[Len(path)] # "/")
    THEN path
    ELSE LET keep == {i \in 1..Len(path) :
                        \/ path[i] # "/"
                        \/ /\ i > 1 /\ path[i - 1] # "/"
                           /\ \E j \in (i + 1)..Len(path) : path[j] # "/"}
         IN  [k \in 1..Cardinality(keep) |->
                path[CHOOSE i \in keep : Cardinality({j \in keep : j <= i}) = k]]

\* sha256(file_id).hexdigest(): a name that tells the ids apart
safe_id(file_id) == <<"sha256", file_id>>
\* a part file named after the upload alone
PartFileId_unnumbered(sid, part_number) == <<sid, 0>>

\* f"{safe_id}.{part_number:05}"
PartFileId(sid, part_number) == <<sid, part_number>>

\* Storage._get_or_create_dir(bucket_name, file_name): makedir of the bucket
\* directory, then makedirs(dirname(file_name), recreate=True), which raises
\* DirectoryExpected when a file stands where a directory is needed.
_get_or_create_dir(f, bucket_name, file_name) ==
    LET made == [f EXCEPT !.dirs = @ \cup {<<bucket_name, <<>>>>}]
        dir_name == normpath(dirname(file_name))
    IN  IF \E a \in Ancestors(dir_name) : <<bucket_name, a>> \in DOMAIN f.files
        THEN [raised |-> "DirectoryExpected", fs |-> made]
        ELSE [raised |-> "",
              fs |-> [made EXCEPT !.dirs = @ \cup {<<bucket_name, a>> : a \in Ancestors(dir_name)}]]

\* file_dir.open(base_name, mode="wb") followed by file.write(content):
\* FileExpected when the name is a directory.
OpenWriteRaises(f, bucket_name, file_name) == <<bucket_name, normpath(file_name)>> \in f.dirs
WriteFile(f, bucket_name, file_name, content) ==
    [f EXCEPT !.files = Put(@, <<bucket_name, normpath(file_name)>>, content)]

\* Storage.get_file(bucket_name, file_name) for an object file: NotFound when
\* the bucket directory or the file is missing or the name is a directory.
get_file(f, bucket_name, file_name) ==
    IF <<bucket_name, normpath(file_name)>> \in DOMAIN f.files
    THEN [raised |-> "", content |-> f.files[<<bucket_name, normpath(file_name)>>]]
    ELSE [raised |-> "NotFound", content |-> <<>>]

\* Storage._delete_file(bucket_name, file_name) for an object file: a missing
\* file is only logged; removing a directory raises FileExpected.
_delete_file(f, bucket_name, file_name) ==
    IF <<bucket_name, normpath(file_name)>> \in f.dirs
    THEN [raised |-> "FileExpected", fs |-> f]
    ELSE [raised |-> "", fs |-> [f EXCEPT !.files = Del(@, <<bucket_name, normpath(file_name)>>)]]

\* Storage._delete_dir(path): removetree of a bucket directory
_delete_dir(f, path) ==
    [f EXCEPT !.files = [p \in {q \in DOMAIN @ : q[1] # path} |-> @[p]],
              !.dirs = {d \in @ : d[1] # path}]

---------------------------------------------------------------------------
(* storage.py: the engine.  st is the Storage object: its four dicts and   *)
(* its file system.  An operation yields the exception it raised ("" for   *)
(* none) and the Storage it leaves.                                        *)

Storage == [buckets |-> buckets, objects |-> objects, resumable |-> resumable,
            multipart |-> multipart, fs |-> fs]

Catalog(st) == [buckets |-> st.buckets, objects |-> st.objects,
                resumable |-> st.resumable, multipart |-> st.multipart]
EmptyCatalog == [buckets |-> EmptyDict, objects |-> EmptyDict,
                 resumable |-> EmptyDict, multipart |-> EmptyDict]

\* json.dump / json.load of the four dicts: every key is a string and every
\* value a string, a number, None or a dict, which JSON gives back as written
json_dump(data) == <<data>>
json_load(text) == text[1]

_write_config_to_file(st) == [st EXCEPT !.fs.meta = json_dump(Catalog(st))]

_read_config_from_file(f) == IF f.meta = None THEN EmptyCatalog ELSE json_load(f.meta)

Ok(st) == [raised |-> "", st |-> st]
Raise(e, st) == [raised |-> e, st |-> st]

create_bucket(st, bucket_name, bucket_obj) ==
    _write_config_to_file([st EXCEPT !.buckets = Put(@, bucket_name, bucket_obj)])

\* the objects of a bucket, self.objects.get(bucket_name, {})
BucketObjects(st, bucket_name) == Get(st.objects, bucket_name)

\* create_file without the write of the bytes
create_file_unwritten(st, bucket_name, file_name, content, file_obj, file_id) ==
    IF bucket_name \notin DOMAIN st.buckets THEN Raise("NotFound", st)
    ELSE
    LET d == _get_or_create_dir(st.fs, bucket_name, file_name) IN
    IF d.raised # "" THEN Raise(d.raised, [st EXCEPT !.fs = d.fs])
    ELSE IF OpenWriteRaises(d.fs, bucket_name, file_name)
    THEN Raise("FileExpected", [st EXCEPT !.fs = d.fs])
    ELSE
    LET written == [st EXCEPT
            !.fs = d.fs,
            !.objects = Put(@, bucket_name, Put(BucketObjects(st, bucket_name), file_name, file_obj))]
    IN  IF file_id = None THEN Ok(_write_config_to_file(written))
        ELSE IF file_id \notin DOMAIN written.resumable THEN Raise("NotFound", written)
        ELSE Ok(_write_config_to_file([written EXCEPT
                    !.resumable = Del(@, file_id),
                    !.fs.resumable = Del(@, safe_id(file_id))]))

create_file(st, bucket_name, file_name, content, file_obj, file_id) ==
    IF bucket_name \notin DOMAIN st.buckets THEN Raise("NotFound", st)
    ELSE
    LET d == _get_or_create_dir(st.fs, bucket_name, file_name) IN
    IF d.raised # "" THEN Raise(d.raised, [st EXCEPT !.fs = d.fs])
    ELSE IF OpenWriteRaises(d.fs, bucket_name, file_name)
    THEN Raise("FileExpected", [st EXCEPT !.fs = d.fs])
    ELSE
    LET written == [st EXCEPT
            !.fs = WriteFile(d.fs, bucket_name, file_name, content),
            !.objects = Put(@, bucket_name, Put(BucketObjects(st, bucket_name), file_name, file_obj))]
    IN  IF file_id = None THEN Ok(_write_config_to_file(written))
        ELSE IF file_id \notin DOMAIN written.resumable THEN Raise("NotFound", written)
        ELSE Ok(_write_config_to_file([written EXCEPT
                    !.resumable = Del(@, file_id),
                    !.fs.resumable = Del(@, safe_id(file_id))]))

\* "{}:{}:{}".format(bucket_name, file_name, datetime.datetime.now())
SessionId(bucket_name, file_name, now) == <<bucket_name, file_name, now>>

create_resumable_upload(st, bucket_name, file_name, file_obj, now) ==
    IF bucket_name \notin DOMAIN st.buckets THEN Raise("NotFound", st)
    ELSE Ok(_write_config_to_file(
            [st EXCEPT !.resumable = Put(@, SessionId(bucket_name, file_name, now), file_obj)]))

create_xml_multipart_upload(st, bucket_name, file_name, content_type, metadata, now) ==
    IF bucket_name \notin DOMAIN st.buckets THEN Raise("NotFound", st)
    ELSE Ok(_write_config_to_file(
            [st EXCEPT !.multipart = Put(@, SessionId(bucket_name, file_name, now),
                [bucket_name |-> bucket_name, id |-> file_name,
                 metadata |-> metadata, contentType |-> content_type])]))

add_to_multipart_upload(st, upload_id, part_number, content) ==
    IF upload_id \notin DOMAIN st.multipart THEN Raise("NotFound", st)
    ELSE Ok([st EXCEPT !.fs.multipart = Put(@, PartFileId(safe_id(upload_id), part_number), content)])

\* the part numbers 1..k that complete_multipart_upload reads: k + 1 is the
\* first part number that has no file
PartsRead(f, sid) ==
    1..Max({n \in 0..MaxPartNumber : \A m \in 1..n : PartFileId(sid, m) \in DOMAIN f.multipart})

\* content += part_content, for the part numbers 1..k in ascending order
PartsContent(f, sid, k) ==
    LET cat[n \in 0..k] == IF n = 0 THEN <<>> ELSE cat[n - 1] \o f.multipart[PartFileId(sid, n)]
    IN  cat[k]

complete_multipart_upload(st, upload_id) ==
    IF upload_id \notin DOMAIN st.multipart THEN Raise("NotFound", st)
    ELSE
    LET upload == st.multipart[upload_id]
        sid == safe_id(upload_id)
        file_name == upload.id
        bucket_name == upload.bucket_name
        d == _get_or_create_dir(st.fs, bucket_name, file_name)
    IN
    IF d.raised # "" THEN Raise(d.raised, [st EXCEPT !.fs = d.fs])
    ELSE
    LET read == PartsRead(d.fs, sid)
        content == PartsContent(d.fs, sid, Cardinality(read))
        \* self._delete_file(MULTIPART_DIR, part_file_id) for each part read
        f1 == [d.fs EXCEPT !.multipart =
                  [q \in DOMAIN @ \ {PartFileId(sid, n) : n \in read} |-> @[q]]]
    IN
    IF OpenWriteRaises(f1, bucket_name, file_name)
    THEN Raise("FileExpected", [st EXCEPT !.fs = f1])
    ELSE
    LET f2 == WriteFile(f1, bucket_name, file_name, content)
        c == checksums(content, Union(upload, [size |-> IntVal(Len(content))]))
    IN  IF c.raised # "" THEN Raise(c.raised, [st EXCEPT !.fs = f2])
        ELSE Ok(_write_config_to_file([st EXCEPT
                !.fs = f2,
                !.objects = Put(@, bucket_name,
                                Put(BucketObjects(st, bucket_name), file_name, c.obj))]))

\* ret is None, or <<bytes>> when the upload is complete
add_to_resumable_upload(st, file_id, content, total_size) ==
    LET sid == safe_id(file_id)
        file_content == (IF sid \in DOMAIN st.fs.resumable THEN st.fs.resumable[sid] ELSE <<>>)
                            \o content
    IN  [raised |-> "",
         st |-> [st EXCEPT !.fs.resumable = Put(@, sid, file_content)],
         ret |-> IF Len(file_content) >= total_size
                 THEN <<Take(file_content, total_size)>> ELSE None]

get_file_obj(st, bucket_name, file_name) ==
    IF bucket_name \in DOMAIN st.objects /\ file_name \in DOMAIN st.objects[bucket_name]
    THEN [raised |-> "", obj |-> st.objects[bucket_name][file_name]]
    ELSE [raised |-> "NotFound", obj |-> None]

get_resumable_file_obj(st, file_id) ==
    IF file_id \in DOMAIN st.resumable
    THEN [raised |-> "", obj |-> st.resumable[file_id]]
    ELSE [raised |-> "NotFound", obj |-> None]

\* the resumable sessions whose resource names the bucket
resumable_ids(st, bucket_name) ==
    {file_id \in DOMAIN st.resumable : Get(st.resumable[file_id], "bucket") = S(bucket_name)}

\* delete_bucket without the look at the pending upload sessions
delete_bucket_unguarded(st, bucket_name) ==
    IF bucket_name \notin DOMAIN st.buckets
    THEN [raised |-> "NotFound", msg |-> "does not exist", st |-> st]
    ELSE IF DOMAIN BucketObjects(st, bucket_name) # {}
    THEN [raised |-> "Conflict", msg |-> "is not empty", st |-> st]
    ELSE [raised |-> "", msg |-> "",
          st |-> _write_config_to_file([st EXCEPT
                    !.buckets = Del(@, bucket_name),
                    !.fs = _delete_dir(@, bucket_name)])]

delete_bucket(st, bucket_name) ==
    IF bucket_name \notin DOMAIN st.buckets
    THEN [raised |-> "NotFound", msg |-> "does not exist", st |-> st]
    ELSE IF DOMAIN BucketObjects(st, bucket_name) # {}
    THEN [raised |-> "Conflict", msg |-> "is not empty", st |-> st]
    ELSE IF resumable_ids(st, bucket_name) # {}
    THEN [raised |-> "Conflict", msg |-> "has pending upload sessions", st |-> st]
    ELSE [raised |-> "", msg |-> "",
          st |-> _write_config_to_file([st EXCEPT
                    !.buckets = Del(@, bucket_name),
                    !.fs = _delete_dir(@, bucket_name)])]

delete_file(st, bucket_name, file_name) ==
    IF get_file_obj(st, bucket_name, file_name).raised # "" THEN Raise("NotFound", st)
    ELSE
    LET removed == [st EXCEPT !.objects[bucket_name] = Del(@, file_name)]
        d == _delete_file(st.fs, bucket_name, file_name)
    IN  IF d.raised # "" THEN Raise(d.raised, removed)
        ELSE Ok(_write_config_to_file([removed EXCEPT !.fs = d.fs]))

\* wipe leaves self.multipart as it is; with keep_buckets each bucket is
\* created again, which writes the snapshot
wipe(st, keep_buckets) ==
    LET existing_buckets == st.buckets
        wiped == [st EXCEPT !.buckets = EmptyDict, !.objects = EmptyDict,
                            !.resumable = EmptyDict, !.fs = EmptyFs]
    IN  IF keep_buckets /\ DOMAIN existing_buckets # {}
        THEN _write_config_to_file([wiped EXCEPT !.buckets = existing_buckets])
        ELSE wiped

patch_object(st, bucket_name, file_name, file_obj) ==
    LET bucket_objects == BucketObjects(st, bucket_name) IN
    IF DOMAIN bucket_objects # {} /\ Get(bucket_objects, file_name) # None
    THEN _write_config_to_file([st EXCEPT !.objects[bucket_name] = Put(@, file_name, file_obj)])
    ELSE st

\* get_file_list without the look at the prefix
get_file_list_unfiltered(st, bucket_name, prefix, delimiter) ==
    IF bucket_name \notin DOMAIN st.buckets
    THEN [raised |-> "NotFound", objs |-> <<>>, names |-> <<>>, prefixes |-> <<>>]
    ELSE
    LET bucket_objects == BucketObjects(st, bucket_name)
        InBucket(file_name) == file_name \in DOMAIN bucket_objects
        names == SelectSeq(KeyOrder, InBucket)
    IN  [raised |-> "",
         objs |-> [i \in 1..Len(names) |-> bucket_objects[names[i]]],
         names |-> names,
         prefixes |-> <<>>]

\* Storage.get_file_list(bucket_name, prefix, delimiter): objs and prefixes are
\* the two lists returned; names are the keys of the objects of objs
get_file_list(st, bucket_name, prefix, delimiter) ==
    IF bucket_name \notin DOMAIN st.buckets
    THEN [raised |-> "NotFound", objs |-> <<>>, names |-> <<>>, prefixes |-> <<>>]
    ELSE
    LET prefix_len == IF Truthy(prefix) THEN Len(prefix.str) ELSE 0
        bucket_objects == BucketObjects(st, bucket_name)
        InBucket(file_name) == file_name \in DOMAIN bucket_objects
        all == SelectSeq(KeyOrder, InBucket)
        Listed(file_name) ==
            /\ startswith(file_name, prefix.str)
            /\ (~Truthy(delimiter) \/ ~Contains(Drop(file_name, prefix_len), delimiter.str))
        names == IF Truthy(prefix) THEN SelectSeq(all, Listed) ELSE all
        Summarized(file_name) ==
            /\ startswith(file_name, OrEmpty(prefix))
            /\ Contains(Drop(file_name, prefix_len), delimiter.str)
        folded == SelectSeq(all, Summarized)
    IN  [raised |-> "",
         objs |-> [i \in 1..Len(names) |-> bucket_objects[names[i]]],
         names |-> names,
         prefixes |-> IF Truthy(delimiter)
                      THEN [i \in 1..Len(folded) |->
                                Take(folded[i], prefix_len)
                                    \o SplitFirst(Drop(folded[i], prefix_len), delimiter.str)
                                    \o delimiter.str]
                      ELSE <<>>]

---------------------------------------------------------------------------
(* handlers/objects.py: resources.                                         *)

_WRITABLE_FIELDS == {"cacheControl", "contentDisposition", "contentEncoding",
                     "contentLanguage", "contentType", "crc32c", "customTime",
                     "md5Hash", "metadata", "storageClass"}

\* A customTime is an RFC 3339 string; those of the model share the date,
\* the hour and the minute, and are written from the seconds on: "00Z",
\* "00.5Z" and "01Z".
Time00 == S(<<"0", "0", "Z">>)
Time005 == S(<<"0", "0", ".", "5", "Z">>)
Time01 == S(<<"0", "1", "Z">>)

\* the code point order of the characters of those strings
CharOrder == <<".", "0", "1", "5", "Z">>
ord(c) == CHOOSE i \in 1..Len(CharOrder) : CharOrder[i] = c
\* s1 > s2 of two Python strings
StrGreater(s1, s2) ==
    \E i \in 1..Len(s1) :
        /\ i - 1 <= Len(s2)
        /\ SubSeq(s1, 1, i - 1) = SubSeq(s2, 1, i - 1)
        /\ (i > Len(s2) \/ ord(s1[i]) > ord(s2[i]))

\* obj.get(key) > val, for two customTime strings
Later(t1, t2) == StrGreater(t1.str, t2.str)

\* obj["metageneration"] raises KeyError on a resource that has no such key
PatchRaises(obj, metadata) == DOMAIN metadata # {} /\ "metageneration" \notin DOMAIN obj

\* _patch_object(obj, metadata), when it does not raise: obj is changed in place
_patch_object(obj, metadata) ==
    IF DOMAIN metadata = {} THEN obj
    ELSE
    LET bumped == Put(obj, "metageneration", str(int(obj["metageneration"]) + 1))
        Taken(key) ==
            /\ Get(metadata, key) # None
            /\ ~(key = "customTime" /\ Get(obj, key) # None /\ Later(Get(obj, key), metadata[key]))
        taken == {key \in _WRITABLE_FIELDS : Taken(key)}
    IN  [key \in DOMAIN bumped \cup taken |-> IF key \in taken THEN metadata[key] ELSE bumped[key]]

_make_object_resource(bucket_name, object_name, content_type, content_length, metadata) ==
    _patch_object(
        [name |-> S(object_name),
         bucket |-> S(bucket_name),
         metageneration |-> str(1),
         contentType |-> content_type,
         storageClass |-> S("STANDARD"),
         size |-> content_length,
         md5Hash |-> None,
         crc32c |-> None,
         etag |-> None],
        metadata)

---------------------------------------------------------------------------
(* Requests.  A response status is OK, RESUME_INCOMPLETE (308), NOT_FOUND  *)
(* (404), BAD_REQUEST (400), or ERROR when the handler lets an exception   *)
(* through (KeyError, or pyfilesystem's DirectoryExpected or FileExpected).*)

ContentType == S("text/plain")
BucketResource(bucket_name) == [name |-> S(bucket_name)]

\* the status a handler gives for the exception an engine call raised
Status(raised) ==
    CASE raised = "" -> "OK"
      [] raised = "NotFound" -> "NOT_FOUND"
      [] raised = "Conflict" -> "BAD_REQUEST"
      [] OTHER -> "ERROR"

\* the outcome of a call on the engine: OK or the exception raised
Outcome(raised) == IF raised = "" THEN "OK" ELSE raised

\* The requests in progress.  The handlers take no lock, so the calls of two
\* requests served at a time interleave at each statement that reads or
\* writes the Storage object; calls[t] is the position of the request that
\* thread t serves, with the local variables of its handler and of the
\* Storage method it has called.
Threads == {1, 2}

IdleCall == [pc |-> "idle", op |-> "", bucket_name |-> "", file_name |-> <<>>,
             content |-> <<>>, file_obj |-> EmptyDict,
             bucket_objects |-> EmptyDict, aliased |-> FALSE,
             file |-> <<>>, obj |-> None, status |-> "",
             upload_id |-> None, part_number |-> 0]

InFlight(t) == calls[t].pc \notin {"idle", "done"}
\* no request is in progress
Quiet == \A t \in Threads : ~InFlight(t)

\* the Storage object after a request served with no other request in
\* progress, and the response
Respond(st, r) ==
    /\ Quiet
    /\ calls' = [t \in Threads |-> IdleCall]
    /\ buckets' = st.buckets
    /\ objects' = st.objects
    /\ resumable' = st.resumable
    /\ multipart' = st.multipart
    /\ fs' = st.fs
    /\ resp' = r
    /\ clock' = clock

NoResponse == [op |-> "", status |-> "", a |-> EmptyDict, out |-> EmptyDict]

Init ==
    /\ fs = EmptyFs
    /\ LET loaded == _read_config_from_file(fs) IN
        /\ buckets = loaded.buckets
        /\ objects = loaded.objects
        /\ resumable = loaded.resumable
        /\ multipart = loaded.multipart
    /\ clock = 1
    /\ resp = NoResponse
    /\ calls = [t \in Threads |-> IdleCall]

\* time passes
Tick ==
    /\ clock < MaxClock
    /\ clock' = clock + 1
    /\ UNCHANGED <<buckets, objects, resumable, multipart, fs, resp, calls>>

CreateBucket(bucket_name) ==
    /\ Respond(create_bucket(Storage, bucket_name, BucketResource(bucket_name)),
               [op |-> "create_bucket", status |-> "OK",
                a |-> [bucket_name |-> bucket_name], out |-> EmptyDict])

\* Storage.delete_bucket, called on the engine: the response is the exception
DeleteBucket(bucket_name) ==
    /\ LET r == delete_bucket(Storage, bucket_name) IN
       Respond(r.st, [op |-> "delete_bucket", status |-> Outcome(r.raised),
                      a |-> [bucket_name |-> bucket_name], out |-> [msg |-> r.msg]])

Wipe(keep_buckets) ==
    /\ Respond(wipe(Storage, keep_buckets),
               [op |-> "wipe", status |-> "OK",
                a |-> [keep_buckets |-> keep_buckets], out |-> EmptyDict])

\* insert with uploadType=media: _media_upload
MediaUpload(bucket_name, object_id, data) ==
    /\ LET obj == _make_object_resource(bucket_name, object_id, ContentType,
                                        str(Len(data)), EmptyDict)
           c == checksums(data, obj)
           r == IF c.raised # "" THEN Raise(c.raised, Storage)
                ELSE create_file(Storage, bucket_name, object_id, data, c.obj, None)
       IN  Respond(r.st, [op |-> "media_upload", status |-> Status(r.raised),
                          a |-> [bucket_name |-> bucket_name, object_id |-> object_id,
                                 data |-> data, meta |-> EmptyDict],
                          out |-> EmptyDict])

\* Storage.create_file, called on the engine with the resource of the
\* content and a resumable file id: the response is the exception
CreateFile(bucket_name, file_name, content, file_id) ==
    /\ LET obj == _make_object_resource(bucket_name, file_name, ContentType,
                                        str(Len(content)), EmptyDict)
           r == create_file(Storage, bucket_name, file_name, content,
                            checksums(content, obj).obj, file_id)
       IN  Respond(r.st, [op |-> "create_file", status |-> Outcome(r.raised),
                          a |-> [bucket_name |-> bucket_name, object_id |-> file_name,
                                 data |-> content, file_id |-> file_id],
                          out |-> EmptyDict])

\* the metadata a JSON upload may carry: none, the checksums of the content,
\* or a checksum of other bytes in place of one of them
Metas(data) ==
    {EmptyDict,
     [crc32c |-> _crc32c(data), md5Hash |-> _md5(data)],
     [crc32c |-> _crc32c(data \o <<"x">>), md5Hash |-> _md5(data)],
     [crc32c |-> _crc32c(data), md5Hash |-> _md5(data \o <<"x">>)]}

\* insert with uploadType=multipart: _multipart_upload
MultipartUpload(bucket_name, object_id, data, meta) ==
    /\ LET obj == _make_object_resource(bucket_name, object_id, ContentType,
                                        str(Len(data)), meta)
           c == checksums(data, obj)
           r == IF c.raised # "" THEN Raise(c.raised, Storage)
                ELSE create_file(Storage, bucket_name, object_id, data, c.obj, None)
       IN  Respond(r.st, [op |-> "multipart_upload", status |-> Status(r.raised),
                          a |-> [bucket_name |-> bucket_name, object_id |-> object_id,
                                 data |-> data, meta |-> meta],
                          out |-> EmptyDict])

SessionIds(T) == {SessionId(bk[1], bk[2], t) : bk \in T, t \in 1..MaxClock}

\* a session may be created: the id is new and there is room, or the id is
\* that of a live session, whose record the creation replaces
MayOpen(sessions, id) == id \in DOMAIN sessions \/ Cardinality(DOMAIN sessions) < MaxSessions

\* insert with uploadType=resumable: _create_resumable_upload, with no
\* x-upload-content-length header
CreateResumable(bucket_name, object_id) ==
    /\ MayOpen(resumable, SessionId(bucket_name, object_id, clock))
    /\ LET obj == _make_object_resource(bucket_name, object_id, ContentType, None, EmptyDict)
           r == create_resumable_upload(Storage, bucket_name, object_id, obj, clock)
       IN  Respond(r.st, [op |-> "create_resumable_upload", status |-> Status(r.raised),
                          a |-> [bucket_name |-> bucket_name, object_id |-> object_id],
                          out |-> IF r.raised = ""
                                  THEN [id |-> SessionId(bucket_name, object_id, clock)]
                                  ELSE EmptyDict])

BufferLen(upload_id) ==
    IF safe_id(upload_id) \in DOMAIN fs.resumable THEN Len(fs.resumable[safe_id(upload_id)]) ELSE 0

\* the Content-Range headers of a chunk: None (absent or not of the form
\* "bytes start-end/total") or <<m_dict>>; a client sends its chunk as the
\* bytes that follow those the server holds, or as the first bytes again
Ranges(upload_id, data) ==
    {None} \cup
    {<<[start |-> s, end |-> IF Len(data) = 0 THEN s ELSE s + Len(data) - 1, total_size |-> t]>> :
        s \in {0, BufferLen(upload_id)}, t \in 0..MaxContent}

\* upload_partial: obj is the dict held in self.resumable, which checksums and
\* obj["size"] = ... change in place
upload_partial(st, upload_id, range, request_data) ==
    LET g == get_resumable_file_obj(st, upload_id) IN
    IF g.raised # "" THEN [raised |-> g.raised, st |-> st, incomplete |-> FALSE, data |-> None]
    ELSE
    LET match == range # None
        added == IF match
                 THEN add_to_resumable_upload(st, upload_id, request_data, range[1].total_size)
                 ELSE [raised |-> "", st |-> st, ret |-> <<request_data>>]
    IN
    IF added.ret = None
    THEN [raised |-> "", st |-> added.st, incomplete |-> TRUE, data |-> None]
    ELSE
    LET data == added.ret[1]
        c == checksums(data, g.obj)
        checked == [added.st EXCEPT !.resumable[upload_id] = c.obj]
    IN
    IF c.raised # ""
    THEN [raised |-> c.raised, st |-> checked, incomplete |-> FALSE, data |-> <<data>>]
    ELSE
    LET obj == Put(c.obj, "size", str(Len(data)))
        sized == [added.st EXCEPT !.resumable[upload_id] = obj]
        r == create_file(sized, obj["bucket"].str, obj["name"].str, data, obj, upload_id)
    IN  [raised |-> r.raised, st |-> r.st, incomplete |-> FALSE, data |-> <<data>>]

\* the request as far as upload_partial reads it: an unknown upload_id is
\* answered before the range and the body are looked at
UploadPartial(upload_id, range, data) ==
    /\ BufferLen(upload_id) + Len(data) <= MaxContent
    /\ LET r == upload_partial(Storage, upload_id, range, data)
           known == upload_id \in DOMAIN resumable
       IN  Respond(r.st,
                [op |-> "upload_partial",
                 status |-> IF r.incomplete THEN "RESUME_INCOMPLETE" ELSE Status(r.raised),
                 a |-> IF known THEN [upload_id |-> upload_id, range |-> range, data |-> data]
                       ELSE [upload_id |-> upload_id],
                 out |-> IF r.incomplete THEN [Range |-> <<0, range[1].end>>] ELSE EmptyDict])

\* Storage.add_to_resumable_upload, called on the engine with a file id,
\* live or not, and a total size: the response is the exception
AddToResumableUpload(file_id, content, total_size) ==
    /\ BufferLen(file_id) + Len(content) <= MaxContent
    /\ LET r == add_to_resumable_upload(Storage, file_id, content, total_size)
       IN  Respond(r.st, [op |-> "add_to_resumable_upload", status |-> Outcome(r.raised),
                          a |-> [upload_id |-> file_id, data |-> content,
                                 total_size |-> total_size],
                          out |-> [ret |-> r.ret]])

\* Storage.create_xml_multipart_upload, called with a content type and no
\* custom metadata
CreateXmlMultipart(bucket_name, object_id) ==
    /\ MayOpen(multipart, SessionId(bucket_name, object_id, clock))
    /\ LET r == create_xml_multipart_upload(Storage, bucket_name, object_id,
                                            ContentType, EmptyDict, clock)
       IN  Respond(r.st, [op |-> "create_xml_multipart_upload", status |-> Status(r.raised),
                          a |-> [bucket_name |-> bucket_name, object_id |-> object_id],
                          out |-> IF r.raised = ""
                                  THEN [id |-> SessionId(bucket_name, object_id, clock)]
                                  ELSE EmptyDict])

PartPayloads == {<<b>> : b \in Bytes}

\* xml_part_upload
XmlPartUpload(upload_id, part_number, data) ==
    /\ LET r == add_to_multipart_upload(Storage, upload_id, part_number, data)
       IN  Respond(r.st, [op |-> "xml_part_upload", status |-> Status(r.raised),
                          a |-> IF r.raised = ""
                                THEN [upload_id |-> upload_id, part_number |-> part_number,
                                      data |-> data]
                                ELSE [upload_id |-> upload_id],
                          out |-> EmptyDict])

\* _xml_complete_upload
XmlCompleteUpload(upload_id) ==
    /\ LET r == complete_multipart_upload(Storage, upload_id)
       IN  Respond(r.st, [op |-> "xml_complete_upload", status |-> Status(r.raised),
                          a |-> [upload_id |-> upload_id], out |-> EmptyDict])

\* copy and rewrite: the two handlers differ in the body of the response
\* only.  storage.get_file is called outside of the try block.
Copy(op, bucket_name, object_id, dest_bucket_name, dest_object_id) ==
    /\ LET g == get_file_obj(Storage, bucket_name, object_id)
           a == [bucket_name |-> bucket_name, object_id |-> object_id,
                 dest_bucket_name |-> dest_bucket_name, dest_object_id |-> dest_object_id]
       IN  IF g.raised # ""
           THEN Respond(Storage, [op |-> op, status |-> Status(g.raised), a |-> a, out |-> EmptyDict])
           ELSE
           LET dest_obj == _make_object_resource(dest_bucket_name, dest_object_id,
                                g.obj["contentType"], g.obj["size"], g.obj)
               file == get_file(fs, bucket_name, object_id)
               c == checksums(file.content, dest_obj)
               r == IF file.raised # "" THEN Raise("Uncaught", Storage)
                    ELSE IF c.raised # "" THEN Raise(c.raised, Storage)
                    ELSE create_file(Storage, dest_bucket_name, dest_object_id,
                                     file.content, c.obj, None)
           IN  Respond(r.st, [op |-> op, status |-> Status(r.raised), a |-> a, out |-> EmptyDict])

\* compose: the sources are objects of the bucket of the destination
Compose(bucket_name, sourceObjects, object_id, destination) ==
    /\ LET a == [bucket_name |-> bucket_name, sourceObjects |-> sourceObjects,
                 object_id |-> object_id, destination |-> destination]
           Missing(i) == \/ get_file_obj(Storage, bucket_name, sourceObjects[i]).raised # ""
                         \/ get_file(fs, bucket_name, sourceObjects[i]).raised # ""
           dest_file[n \in 0..Len(sourceObjects)] ==
               IF n = 0 THEN <<>>
               ELSE dest_file[n - 1] \o get_file(fs, bucket_name, sourceObjects[n]).content
           content_type == IF sourceObjects = <<>> THEN None
                           ELSE get_file_obj(Storage, bucket_name, sourceObjects[1]).obj["contentType"]
       IN  IF \E i \in 1..Len(sourceObjects) : Missing(i)
           THEN Respond(Storage, [op |-> "compose", status |-> "NOT_FOUND", a |-> a, out |-> EmptyDict])
           ELSE
           LET content == dest_file[Len(sourceObjects)]
               dest_obj == _make_object_resource(bucket_name, object_id, content_type,
                                                 IntVal(Len(content)), destination)
               c == checksums(content, dest_obj)
               r == IF c.raised # "" THEN Raise(c.raised, Storage)
                    ELSE create_file(Storage, bucket_name, object_id, content, c.obj, None)
           IN  /\ Len(content) <= MaxContent
               /\ Respond(r.st, [op |-> "compose", status |-> Status(r.raised), a |-> a,
                                 out |-> EmptyDict])

\* the metadata of a PATCH request
Patches ==
    {EmptyDict,
     [customTime |-> Time00],
     [customTime |-> Time01, contentType |-> S("text/html")],
     [crc32c |-> _crc32c(<<"x", "x", "x", "x">>)]}

\* patches that carry a customTime and another field
TimedPatches ==
    {[customTime |-> Time00, contentType |-> S("text/html")],
     [customTime |-> Time005, contentType |-> S("text/css")]}

\* patches that carry a checksum, and one that carries none
ChecksumPatches ==
    {[crc32c |-> _crc32c(<<"y">>)], [md5Hash |-> _md5(<<"y">>)],
     [contentType |-> S("text/html")]}

\* patch: _patch changes the dict held in self.objects in place and then
\* calls patch_object; a NotFound gives 404
Patch(bucket_name, object_id, metadata) ==
    /\ LET g == get_file_obj(Storage, bucket_name, object_id)
           a == [bucket_name |-> bucket_name, object_id |-> object_id, meta |-> metadata]
       IN  IF g.raised # ""
           THEN Respond(Storage, [op |-> "patch", status |-> "NOT_FOUND", a |-> a,
                                  out |-> EmptyDict])
           ELSE IF PatchRaises(g.obj, metadata)
           THEN Respond(Storage, [op |-> "patch", status |-> "ERROR", a |-> a,
                                  out |-> EmptyDict])
           ELSE
           LET obj == _patch_object(g.obj, metadata)
               patched == [Storage EXCEPT !.objects[bucket_name][object_id] = obj]
           IN  /\ "metageneration" \in DOMAIN obj =>
                     int(obj["metageneration"]) <= MaxMetageneration
               /\ Respond(patch_object(patched, bucket_name, object_id, obj),
                          [op |-> "patch", status |-> "OK", a |-> a, out |-> EmptyDict])

\* delete
Delete(bucket_name, object_id) ==
    /\ LET r == delete_file(Storage, bucket_name, object_id) IN
       Respond(r.st, [op |-> "delete", status |-> Status(r.raised),
                      a |-> [bucket_name |-> bucket_name, object_id |-> object_id],
                      out |-> EmptyDict])

\* one item of a batch request, served on the Storage st: the exception the
\* engine raised ("" for none), the status line written for the item, and
\* whether an exception left the handler
batch_item(st, item) ==
    IF item.method = "PATCH"
    THEN LET g == get_file_obj(st, item.bucket_name, item.object_id) IN
         IF g.raised # ""
         THEN [st |-> st, raised |-> g.raised, line |-> "NOT_FOUND", uncaught |-> FALSE]
         ELSE IF PatchRaises(g.obj, item.meta)
         THEN [st |-> st, raised |-> "KeyError", line |-> "", uncaught |-> TRUE]
         ELSE LET obj == _patch_object(g.obj, item.meta)
                  patched == [st EXCEPT !.objects[item.bucket_name][item.object_id] = obj]
              IN  [st |-> patch_object(patched, item.bucket_name, item.object_id, obj),
                   raised |-> "", line |-> "OK", uncaught |-> FALSE]
    ELSE IF item.object_id # None
    THEN LET r == delete_file(st, item.bucket_name, item.object_id) IN
         [st |-> r.st, raised |-> r.raised,
          line |-> IF r.raised = "" THEN "NO_CONTENT"
                   ELSE IF r.raised = "NotFound" THEN "NOT_FOUND" ELSE "",
          uncaught |-> r.raised \notin {"", "NotFound"}]
    ELSE LET r == delete_bucket(st, item.bucket_name) IN
         [st |-> r.st, raised |-> r.raised,
          line |-> IF r.raised = "" THEN "NO_CONTENT" ELSE "NOT_FOUND",
          uncaught |-> FALSE]

\* the items a batch request may carry: PATCH and DELETE of the objects of
\* T, with the metadata of M, and DELETE of the buckets of B
BatchItems(T, B, M) ==
    {[method |-> "PATCH", bucket_name |-> bk[1], object_id |-> bk[2], meta |-> meta] :
        bk \in T, meta \in M}
    \cup {[method |-> "DELETE", bucket_name |-> bk[1], object_id |-> bk[2], meta |-> None] :
        bk \in T}
    \cup {[method |-> "DELETE", bucket_name |-> b, object_id |-> None, meta |-> None] :
        b \in B}

\* batch: the items are served in turn, each with its own status line; an
\* exception that _patch and _delete do not catch ends the request
Batch(items) ==
    /\ LET served[n \in 0..Len(items)] ==
               IF n = 0 THEN [st |-> Storage, out |-> <<>>, uncaught |-> FALSE]
               ELSE IF served[n - 1].uncaught THEN served[n - 1]
               ELSE LET i == batch_item(served[n - 1].st, items[n])
                    IN  [st |-> i.st,
                         out |-> Append(served[n - 1].out, [raised |-> i.raised, line |-> i.line]),
                         uncaught |-> i.uncaught]
           r == served[Len(items)]
       IN  /\ \A b \in DOMAIN r.st.objects : \A k \in DOMAIN r.st.objects[b] :
                 "metageneration" \in DOMAIN r.st.objects[b][k] =>
                     int(r.st.objects[b][k]["metageneration"]) <= MaxMetageneration
           /\ Respond(r.st, [op |-> "batch", status |-> IF r.uncaught THEN "ERROR" ELSE "OK",
                             a |-> [items |-> items], out |-> [items |-> r.out]])

Prefixes == {None, S(<<>>), S(<<"a">>), S(<<"a", "/">>), S(<<"a", "/", "b">>)}
Delimiters == {None, S(<<>>), S(<<"/">>), S(<<"a">>)}

\* ls
Ls(bucket_name, prefix, delimiter) ==
    /\ LET r == get_file_list(Storage, bucket_name, prefix, delimiter) IN
       Respond(Storage, [op |-> "ls", status |-> Status(r.raised),
                         a |-> [bucket_name |-> bucket_name, prefix |-> prefix,
                                delimiter |-> delimiter],
                         out |-> [objs |-> r.objs, names |-> r.names,
                                  prefixes |-> r.prefixes]])

\* the sourceObjects of a compose request: up to two keys of K
SourceLists(K) == {<<>>} \cup {<<k>> : k \in K} \cup {<<k1, k2>> : k1 \in K, k2 \in K}
\* the destination of a compose request: no metadata, or the checksums of b"x"
Destinations == {EmptyDict, [crc32c |-> _crc32c(<<"x">>), md5Hash |-> _md5(<<"x">>)]}

---------------------------------------------------------------------------
(* Requests served at the same time.  A media upload is _media_upload and  *)
(* the statements of Storage.create_file; a download is the two reads of   *)
(* the download handler.  bucket_objects is the local variable of          *)
(* create_file: a reference to the dict held in self.objects (aliased), or *)
(* a dict of its own, which is the case of the {} that                     *)
(* self.objects.get(bucket_name, {}) makes and of a dict that another call *)
(* has replaced in self.objects since.                                     *)

Goto(t, call) ==
    /\ calls' = [calls EXCEPT ![t] = call]
    /\ UNCHANGED <<buckets, resumable, multipart, clock, resp>>

Finish(call, status) == [call EXCEPT !.pc = "done", !.status = status]

\* _media_upload up to the first statement of create_file:
\* if bucket_name not in self.buckets: raise NotFound
BeginMediaUpload(t, bucket_name, object_id, data) ==
    /\ ~InFlight(t)
    /\ LET obj == _make_object_resource(bucket_name, object_id, ContentType,
                                        str(Len(data)), EmptyDict)
           call == [IdleCall EXCEPT !.op = "media_upload", !.bucket_name = bucket_name,
                                    !.file_name = object_id, !.content = data,
                                    !.file_obj = checksums(data, obj).obj]
       IN  Goto(t, IF bucket_name \notin DOMAIN buckets THEN Finish(call, "NOT_FOUND")
                   ELSE [call EXCEPT !.pc = "makedir"])
    /\ UNCHANGED <<objects, fs>>

\* file_dir = self._get_or_create_dir(bucket_name, file_name)
CreateFileMakedir(t) ==
    /\ calls[t].pc = "makedir"
    /\ LET d == _get_or_create_dir(fs, calls[t].bucket_name, calls[t].file_name) IN
        /\ fs' = d.fs
        /\ Goto(t, IF d.raised # "" THEN Finish(calls[t], "ERROR")
                    ELSE [calls[t] EXCEPT !.pc = "open"])
    /\ UNCHANGED objects

\* file_dir.open(base_name, mode="wb"), which empties the file
CreateFileOpen(t) ==
    /\ calls[t].pc = "open"
    /\ IF OpenWriteRaises(fs, calls[t].bucket_name, calls[t].file_name)
       THEN fs' = fs /\ Goto(t, Finish(calls[t], "ERROR"))
       ELSE /\ fs' = WriteFile(fs, calls[t].bucket_name, calls[t].file_name, <<>>)
            /\ Goto(t, [calls[t] EXCEPT !.pc = "write"])
    /\ UNCHANGED objects

\* file.write(content)
CreateFileWrite(t) ==
    /\ calls[t].pc = "write"
    /\ fs' = WriteFile(fs, calls[t].bucket_name, calls[t].file_name, calls[t].content)
    /\ Goto(t, [calls[t] EXCEPT !.pc = "get"])
    /\ UNCHANGED objects

\* bucket_objects = self.objects.get(bucket_name, {})
CreateFileGet(t) ==
    /\ calls[t].pc = "get"
    /\ Goto(t, [calls[t] EXCEPT !.pc = "put",
                                 !.aliased = calls[t].bucket_name \in DOMAIN objects,
                                 !.bucket_objects = EmptyDict])
    /\ UNCHANGED <<objects, fs>>

\* bucket_objects[file_name] = file_obj
CreateFilePut(t) ==
    /\ calls[t].pc = "put"
    /\ IF calls[t].aliased
       THEN /\ objects' = [objects EXCEPT ![calls[t].bucket_name] =
                                Put(@, calls[t].file_name, calls[t].file_obj)]
            /\ Goto(t, [calls[t] EXCEPT !.pc = "set"])
       ELSE /\ objects' = objects
            /\ Goto(t, [calls[t] EXCEPT !.pc = "set",
                            !.bucket_objects = Put(@, calls[t].file_name, calls[t].file_obj)])
    /\ UNCHANGED fs

\* the calls that hold a reference to the dict of the bucket in self.objects
Aliasing(bucket_name) ==
    {u \in Threads : /\ calls[u].pc \in {"put", "set"}
                     /\ calls[u].aliased
                     /\ calls[u].bucket_name = bucket_name}

\* self.objects[bucket_name] = bucket_objects: a dict of the call's own takes
\* the place of the dict the other calls hold
CreateFileSet(t) ==
    /\ calls[t].pc = "set"
    /\ IF calls[t].aliased
       THEN /\ objects' = objects
            /\ Goto(t, [calls[t] EXCEPT !.pc = "save"])
       ELSE /\ objects' = Put(objects, calls[t].bucket_name, calls[t].bucket_objects)
            /\ calls' = [u \in Threads |->
                            IF u = t THEN [calls[t] EXCEPT !.pc = "save"]
                            ELSE IF u \in Aliasing(calls[t].bucket_name)
                            THEN [calls[u] EXCEPT !.aliased = FALSE,
                                                  !.bucket_objects = objects[calls[t].bucket_name]]
                            ELSE calls[u]]
            /\ UNCHANGED <<buckets, resumable, multipart, clock, resp>>
    /\ UNCHANGED fs

\* self._write_config_to_file(), and response.json(obj)
CreateFileSave(t) ==
    /\ calls[t].pc = "save"
    /\ fs' = _write_config_to_file(Storage).fs
    /\ Goto(t, Finish(calls[t], "OK"))
    /\ UNCHANGED objects

\* add_to_multipart_upload up to its first statements:
\* upload = self.multipart.get(upload_id); if upload is None: raise NotFound.
\* The requests answered before this one begins are no longer in calls.
BeginAddPart(t, upload_id, part_number, data) ==
    /\ ~InFlight(t)
    /\ LET call == [IdleCall EXCEPT !.op = "xml_part_upload", !.bucket_name = "_multipart",
                                    !.upload_id = upload_id, !.part_number = part_number,
                                    !.file_name = PartFileId(safe_id(upload_id), part_number),
                                    !.content = data]
       IN  calls' = [u \in Threads |->
                        IF u = t
                        THEN IF upload_id \notin DOMAIN multipart THEN Finish(call, "NOT_FOUND")
                             ELSE [call EXCEPT !.pc = "part_makedir"]
                        ELSE IF InFlight(u) THEN calls[u] ELSE IdleCall]
    /\ UNCHANGED <<buckets, objects, resumable, multipart, fs, clock, resp>>

\* file_dir = self._get_or_create_dir(MULTIPART_DIR, part_file_id): makedir
\* of the container, or opendir when it exists, and makedirs("") of its root
AddPartMakedir(t) ==
    /\ calls[t].pc = "part_makedir"
    /\ Goto(t, [calls[t] EXCEPT !.pc = "part_open"])
    /\ UNCHANGED <<objects, fs>>

\* file_dir.open(part_file_id, mode="wb"), which empties the file
AddPartOpen(t) ==
    /\ calls[t].pc = "part_open"
    /\ fs' = [fs EXCEPT !.multipart = Put(@, calls[t].file_name, <<>>)]
    /\ Goto(t, [calls[t] EXCEPT !.pc = "part_write"])
    /\ UNCHANGED objects

\* file.write(content)
AddPartWrite(t) ==
    /\ calls[t].pc = "part_write"
    /\ fs' = [fs EXCEPT !.multipart = Put(@, calls[t].file_name, calls[t].content)]
    /\ Goto(t, Finish(calls[t], "OK"))
    /\ UNCHANGED objects

\* download: file = storage.get_file(bucket_name, object_id)
BeginDownload(t, bucket_name, object_id) ==
    /\ ~InFlight(t)
    /\ LET r == get_file(fs, bucket_name, object_id)
           call == [IdleCall EXCEPT !.op = "download", !.bucket_name = bucket_name,
                                    !.file_name = object_id, !.file = r.content]
       IN  Goto(t, IF r.raised # "" THEN Finish(call, "NOT_FOUND")
                   ELSE [call EXCEPT !.pc = "get_file_obj"])
    /\ UNCHANGED <<objects, fs>>

\* download: obj = storage.get_file_obj(bucket_name, object_id), and the
\* response made of file and obj
DownloadGetFileObj(t) ==
    /\ calls[t].pc = "get_file_obj"
    /\ LET r == get_file_obj(Storage, calls[t].bucket_name, calls[t].file_name) IN
       Goto(t, IF r.raised # "" THEN Finish(calls[t], "NOT_FOUND")
               ELSE Finish([calls[t] EXCEPT !.obj = r.obj], "OK"))
    /\ UNCHANGED <<objects, fs>>

---------------------------------------------------------------------------
(* The requests a client sends, by group; T is the set of (bucket, key)    *)
(* pairs the requests name, P the set of request bodies and N the set of   *)
(* part numbers.                                                           *)

\* create_bucket and delete_bucket
NextBuckets(B) ==
    \/ \E b \in B : CreateBucket(b)
    \/ \E b \in B : DeleteBucket(b)

\* media upload and delete
NextObjects(T, P) ==
    \/ \E bk \in T, data \in P : MediaUpload(bk[1], bk[2], data)
    \/ \E bk \in T : Delete(bk[1], bk[2])

\* listing with and without a prefix and a delimiter
NextLs(B) == \E b \in B, p \in Prefixes, d \in Delimiters : Ls(b, p, d)

\* PATCH of an object
NextPatch(T, M) == \E bk \in T, meta \in M : Patch(bk[1], bk[2], meta)

\* create_file with the id of a resumable session of the key, live or not
NextCreateFile(T, P) ==
    \E bk \in T, data \in P :
        \E id \in SessionIds({bk}) : CreateFile(bk[1], bk[2], data, id)

\* batch requests of one to MaxBatch items
NextBatch(T, B, M) ==
    \E n \in 1..MaxBatch : \E items \in [1..n -> BatchItems(T, B, M)] : Batch(items)

\* wipe, with and without keep_buckets
NextWipe == \E keep \in BOOLEAN : Wipe(keep)

\* the resumable upload protocol; a chunk for an id that is not that of a
\* live session is answered before its range and body are read
NextResumable(T, P) ==
    \/ \E bk \in T : CreateResumable(bk[1], bk[2])
    \/ \E id \in DOMAIN resumable, data \in P :
          \E range \in Ranges(id, data) : UploadPartial(id, range, data)
    \/ \E id \in SessionIds(T) \ DOMAIN resumable : UploadPartial(id, None, <<>>)

\* add_to_resumable_upload with the id of a resumable session of a key of T,
\* live or not
NextAddToResumable(T, P) ==
    \E id \in SessionIds(T), data \in P, total_size \in 0..MaxContent :
        AddToResumableUpload(id, data, total_size)

\* the opening of an XML multipart upload
NextXmlInitiate(T) == \E bk \in T : CreateXmlMultipart(bk[1], bk[2])

\* the XML multipart upload protocol
NextXmlMultipart(T, N, P) ==
    \/ NextXmlInitiate(T)
    \/ \E id \in SessionIds(T), n \in N, data \in P :
          XmlPartUpload(id, n, data)
    \/ \E id \in SessionIds(T) : XmlCompleteUpload(id)

\* copy and rewrite, from a key of T to a key of D
NextCopy(T, D) ==
    \E op \in {"copy", "rewrite"}, bk \in T, dbk \in D :
        Copy(op, bk[1], bk[2], dbk[1], dbk[2])

\* the writes whose resource may carry checksums: JSON multipart upload, copy,
\* rewrite and compose
NextWrites(T, P) ==
    \/ \E bk \in T, data \in P :
          \E meta \in Metas(data) : MultipartUpload(bk[1], bk[2], data, meta)
    \/ NextCopy(T, T)
    \/ \E bk \in T, srcs \in SourceLists({t[2] : t \in T}), destination \in Destinations :
          Compose(bk[1], srcs, bk[2], destination)

\* media uploads to the keys of T with the bodies of P, and downloads of the
\* keys of R, served at the same time
NextCalls(T, P, R) ==
    \/ \E t \in Threads, bk \in T, data \in P : BeginMediaUpload(t, bk[1], bk[2], data)
    \/ \E t \in Threads : CreateFileMakedir(t)
    \/ \E t \in Threads : CreateFileOpen(t)
    \/ \E t \in Threads : CreateFileWrite(t)
    \/ \E t \in Threads : CreateFileGet(t)
    \/ \E t \in Threads : CreateFilePut(t)
    \/ \E t \in Threads : CreateFileSet(t)
    \/ \E t \in Threads : CreateFileSave(t)
    \/ \E t \in Threads, bk \in R : BeginDownload(t, bk[1], bk[2])
    \/ \E t \in Threads : DownloadGetFileObj(t)

\* parts sent for the uploads of the keys of T, with the part numbers of N and
\* the bodies of P, served at the same time
NextParts(T, N, P) ==
    \/ \E t \in Threads, id \in SessionIds(T), n \in N, data \in P : BeginAddPart(t, id, n, data)
    \/ \E t \in Threads : AddPartMakedir(t)
    \/ \E t \in Threads : AddPartOpen(t)
    \/ \E t \in Threads : AddPartWrite(t)

\* the resumable upload protocol over a bucket and its objects
SpecResumable ==
    Init /\ [][NextBuckets({"b1"}) \/ NextObjects(Nested, UploadPayloads)
                \/ NextResumable(Nested, Payloads)]_vars

\* the XML multipart upload protocol over a bucket and its objects
SpecXmlMultipart ==
    Init /\ [][NextBuckets({"b1"}) \/ NextObjects(Nested, {<<"x">>})
                \/ NextXmlMultipart(Nested, 1..MaxPartNumber, PartPayloads)]_vars

\* the write paths that reconcile checksums, over a bucket and its objects
SpecWrites ==
    Init /\ [][NextBuckets({"b1"}) \/ NextObjects(Nested, UploadPayloads)
                \/ NextWrites(Nested, UploadPayloads)]_vars

\* listing, over a bucket and its objects
SpecLs ==
    Init /\ [][NextBuckets({"b1"}) \/ NextObjects({"b1"} \X Keys, {<<"x">>})
                \/ NextLs({"b1"})]_vars

\* every call that changes the catalog, over a bucket and an object
SpecSnapshot ==
    Init /\ [][NextBuckets({"b1"}) \/ NextObjects(OneKey, {<<"x">>})
                \/ NextPatch(OneKey, Patches)
                \/ NextResumable(OneKey, {<<"x">>})
                \/ NextXmlMultipart(OneKey, {1}, {<<"x">>})
                \/ NextWipe]_vars

\* buckets with the objects of one of them, resumable sessions for both and
\* XML multipart uploads opened for the first
SpecBuckets ==
    Init /\ [][NextBuckets(BucketNames) \/ NextObjects({<<"b1", KeyAB>>}, {<<"x">>})
                \/ NextResumable(TwoBuckets, {<<"x">>})
                \/ NextXmlInitiate(OneKey)]_vars

\* every creation path, over a bucket and a key of it, and a second key that
\* copies of the first are written to
SpecCreate ==
    Init /\ [][NextBuckets({"b1"}) \/ NextObjects(OneNested, {<<"x">>})
                \/ NextWrites(OneNested, {<<"x">>})
                \/ NextCopy(OneNested, Siblings)
                \/ NextResumable(OneNested, {<<"x">>})
                \/ NextXmlMultipart(OneNested, {1}, {<<"x">>})]_vars

\* uploads to two keys of a bucket and downloads of one of them, served at
\* the same time
SpecCalls ==
    Init /\ [][\E b \in {"b1"} : CreateBucket(b)
                \/ NextCalls(Siblings, UploadPayloads, OneNested)]_vars

\* the parts of an XML multipart upload, sent at the same time
SpecParts ==
    Init /\ [][(\E b \in {"b1"} : CreateBucket(b)) \/ NextXmlInitiate(OneKey)
                \/ NextParts(OneKey, 1..MaxPartNumber, PartPayloads)]_vars

\* the sessions of both kinds for a key of a bucket, as time passes
SpecSessions ==
    Init /\ [][Tick \/ NextBuckets({"b1"})
                \/ NextResumable(OneKey, {<<"x">>})
                \/ NextXmlMultipart(OneKey, {1}, {<<"x">>})]_vars

\* uploads to and deletions of the keys of two buckets, two of the keys
\* being one path of the file system
SpecKeys ==
    Init /\ [][NextBuckets(BucketNames) \/ NextObjects(Aliases, UploadPayloads)]_vars

\* the requests that meet a NotFound or a Conflict of the engine: uploads
\* with checksums, deletions and batch requests, over a bucket and an object
SpecErrors ==
    Init /\ [][NextBuckets({"b1"}) \/ NextObjects(OneKey, {<<"x">>})
                \/ NextWrites(OneKey, {<<"x">>})
                \/ NextBatch(OneKey, {"b1"}, {[contentType |-> S("text/html")]})]_vars

\* the calls that may fail with NotFound or Conflict, over a bucket and an
\* object: on absent buckets, absent objects and absent sessions, and the
\* deletion of a bucket that is in use
SpecFailures ==
    Init /\ [][NextBuckets({"b1"}) \/ NextObjects(OneKey, {<<"x">>})
                \/ NextResumable(OneKey, {<<"x">>}) \/ NextXmlInitiate(OneKey)
                \/ NextLs({"b1"}) \/ NextCreateFile(OneKey, {<<"x">>})]_vars

\* uploads, copies, composes and patches with and without checksums, over a
\* bucket and its objects
SpecChecksums ==
    Init /\ [][NextBuckets({"b1"}) \/ NextObjects(Nested, UploadPayloads)
                \/ NextWrites(Nested, UploadPayloads)
                \/ NextPatch(Nested, ChecksumPatches)]_vars

\* the calls on the engine that feed a resumable session, over a bucket and
\* the sessions of a key of it
SpecBuffers ==
    Init /\ [][Tick \/ NextBuckets({"b1"}) \/ NextResumable(OneKey, {<<"x">>})
                \/ NextAddToResumable(OneKey, Payloads)]_vars

\* PATCH of an object of a bucket, between uploads and deletions
SpecPatch ==
    Init /\ [][NextBuckets({"b1"}) \/ NextObjects(OneKey, UploadPayloads)
                \/ NextPatch(OneKey, Patches \cup TimedPatches)]_vars

\* every request of the model, and the passing of time
Next ==
    \/ Tick
    \/ NextBuckets(BucketNames)
    \/ NextObjects(Targets, UploadPayloads)
    \/ NextPatch(Targets, Patches \cup TimedPatches)
    \/ NextWrites(Targets, UploadPayloads)
    \/ NextResumable(Targets, Payloads)
    \/ NextXmlMultipart(Targets, 1..MaxPartNumber, PartPayloads)
    \/ NextLs(BucketNames)
    \/ NextWipe
    \/ NextCalls(Targets, UploadPayloads, Targets)
    \/ NextParts(Targets, 1..MaxPartNumber, PartPayloads)
    \/ NextBatch(Targets, BucketNames, Patches \cup TimedPatches)
    \/ NextCreateFile(Targets, UploadPayloads)
    \/ NextAddToResumable(Targets, Payloads)

Spec == Init /\ [][Next]_vars

---------------------------------------------------------------------------
(* Properties.                                                             *)

\* the bytes a session's transient buffer holds, none when it has no buffer
Buffered(f, upload_id) == Get(f.resumable, safe_id(upload_id))

\* C1: a ranged chunk for a live session, with declared total T, that leaves
\* the bytes received so far below T is answered "incomplete", is appended to
\* the buffer, keeps the session and creates or changes no object; a chunk
\* that brings them to T or more stores, under the session's key, the first
\* T bytes received, and removes the session record and the buffer.
C1_ResumableStateMachine ==
    [][\A id \in DOMAIN resumable :
        (/\ resp'.op = "upload_partial"
         /\ resp'.a.upload_id = id
         /\ resp'.a.range # None
         /\ UploadPartial(id, resp'.a.range, resp'.a.data))
        => LET T == resp'.a.range[1].total_size
               arrived == Buffered(fs, id) \o resp'.a.data
               bucket_name == resumable[id]["bucket"].str
               file_name == resumable[id]["name"].str
           IN  IF Len(arrived) < T
               THEN /\ resp'.status = "RESUME_INCOMPLETE"
                    /\ id \in DOMAIN resumable'
                    /\ Buffered(fs', id) = arrived
                    /\ objects' = objects
                    /\ fs'.files = fs.files
               ELSE /\ resp'.status = "OK"
                    /\ get_file_obj(Storage', bucket_name, file_name).raised = ""
                    /\ get_file(fs', bucket_name, file_name).raised = ""
                    /\ get_file(fs', bucket_name, file_name).content = Take(arrived, T)
                    /\ id \notin DOMAIN resumable'
                    /\ safe_id(id) \notin DOMAIN fs'.resumable]_vars

\* the bytes of the stored parts 1..k of an upload in ascending part number,
\* k + 1 being the first part number with no stored part
Assembled(f, upload_id) ==
    LET Stored(n) == PartFileId(safe_id(upload_id), n) \in DOMAIN f.multipart
        k == CHOOSE n \in 0..MaxPartNumber :
                /\ \A m \in 1..n : Stored(m)
                /\ n < MaxPartNumber => ~Stored(n + 1)
        joined[n \in 0..k] ==
            IF n = 0 THEN <<>>
            ELSE joined[n - 1] \o f.multipart[PartFileId(safe_id(upload_id), n)]
    IN  joined[k]

\* C2: a part sent for a live upload is stored under its part number in
\* place of what was stored there, and complete(uploadId) produces, under the
\* upload's key, an object whose bytes are those of the stored parts 1..k in
\* ascending part number, where k + 1 is the first missing part number.
C2_MultipartAssembly ==
    [][\A id \in DOMAIN multipart :
        /\ (/\ resp'.op = "xml_part_upload"
            /\ resp'.a.upload_id = id
            /\ XmlPartUpload(id, resp'.a.part_number, resp'.a.data))
           => /\ resp'.status = "OK"
              /\ fs'.multipart[PartFileId(safe_id(id), resp'.a.part_number)] = resp'.a.data
              /\ \A q \in DOMAIN fs.multipart \ {PartFileId(safe_id(id), resp'.a.part_number)} :
                    q \in DOMAIN fs'.multipart /\ fs'.multipart[q] = fs.multipart[q]
        /\ (/\ resp'.op = "xml_complete_upload"
            /\ resp'.a.upload_id = id
            /\ XmlCompleteUpload(id))
           => /\ resp'.status = "OK"
              /\ get_file_obj(Storage', multipart[id].bucket_name, multipart[id].id).raised = ""
              /\ get_file(fs', multipart[id].bucket_name, multipart[id].id) =
                    [raised |-> "", content |-> Assembled(fs, id)]]_vars

\* the request was complete(upload_id) for a live upload and it succeeded
Completed(id) ==
    /\ resp'.op = "xml_complete_upload"
    /\ resp'.a.upload_id = id
    /\ resp'.status = "OK"
    /\ XmlCompleteUpload(id)

\* C3: after a successful complete(uploadId) the session record of uploadId
\* is neither in self.multipart nor in the persisted snapshot.
C3_SessionRecordRemoved ==
    [][\A id \in DOMAIN multipart :
        Completed(id) => /\ id \notin DOMAIN multipart'
                         /\ id \notin DOMAIN _read_config_from_file(fs').multipart]_vars

\* C4: after a successful complete(uploadId) no part file of uploadId is
\* left in the _multipart container, whatever part numbers were uploaded.
C4_NoPartRemains ==
    [][\A id \in DOMAIN multipart :
        Completed(id) => \A n \in 1..MaxPartNumber :
                            PartFileId(safe_id(id), n) \notin DOMAIN fs'.multipart]_vars

\* the bucket holds at least one object
HoldsObjects(bucket_name) ==
    \E file_name \in Keys : get_file_obj(Storage, bucket_name, file_name).raised = ""
\* a live resumable session was created for the bucket
Targeted(bucket_name) == \E id \in DOMAIN resumable : id[1] = bucket_name

Joined(bucket_name, sources) ==
    LET joined[n \in 0..Len(sources)] ==
            IF n = 0 THEN <<>>
            ELSE joined[n - 1] \o get_file(fs, bucket_name, sources[n]).content
    IN  joined[Len(sources)]

\* the write a request asks for: the key written, the content, the resource
\* metadata the write carries, and whether the bucket written to and the
\* objects read exist
Write(r) ==
    CASE r.op = "multipart_upload" ->
            [bucket |-> r.a.bucket_name, key |-> r.a.object_id, content |-> r.a.data,
             carried |-> r.a.meta,
             ready |-> r.a.bucket_name \in DOMAIN buckets]
      [] r.op \in {"copy", "rewrite"} ->
            [bucket |-> r.a.dest_bucket_name, key |-> r.a.dest_object_id,
             content |-> get_file(fs, r.a.bucket_name, r.a.object_id).content,
             carried |-> get_file_obj(Storage, r.a.bucket_name, r.a.object_id).obj,
             ready |-> /\ r.a.dest_bucket_name \in DOMAIN buckets
                       /\ get_file_obj(Storage, r.a.bucket_name, r.a.object_id).raised = ""
                       /\ get_file(fs, r.a.bucket_name, r.a.object_id).raised = ""]
      [] r.op = "compose" ->
            [bucket |-> r.a.bucket_name, key |-> r.a.object_id,
             content |-> Joined(r.a.bucket_name, r.a.sourceObjects),
             carried |-> r.a.destination,
             ready |-> /\ r.a.bucket_name \in DOMAIN buckets
                       /\ \A i \in 1..Len(r.a.sourceObjects) :
                            /\ get_file_obj(Storage, r.a.bucket_name, r.a.sourceObjects[i]).raised = ""
                            /\ get_file(fs, r.a.bucket_name, r.a.sourceObjects[i]).raised = ""]

\* C6: a write to an existing bucket whose resource carries the crc32c and
\* the md5Hash of the content succeeds and stores the resource with those
\* values; a write whose resource carries a crc32c or an md5Hash that is not
\* that of the content fails with Conflict (status 400) and leaves the
\* object at the key, resource and bytes, as it was or absent.
C6_ChecksumReconciliation ==
    [][(resp'.op \in {"multipart_upload", "copy", "rewrite", "compose"} /\ Write(resp').ready)
        => LET w == Write(resp')
               crc32c == Get(w.carried, "crc32c")
               md5Hash == Get(w.carried, "md5Hash")
           IN  /\ (crc32c = _crc32c(w.content) /\ md5Hash = _md5(w.content))
                   => /\ resp'.status = "OK"
                      /\ get_file_obj(Storage', w.bucket, w.key).raised = ""
                      /\ get_file_obj(Storage', w.bucket, w.key).obj["crc32c"] = crc32c
                      /\ get_file_obj(Storage', w.bucket, w.key).obj["md5Hash"] = md5Hash
               /\ (\/ crc32c \notin {None, _crc32c(w.content)}
                   \/ md5Hash \notin {None, _md5(w.content)})
                   => /\ resp'.status = "BAD_REQUEST"
                      /\ get_file_obj(Storage', w.bucket, w.key) = get_file_obj(Storage, w.bucket, w.key)
                      /\ get_file(fs', w.bucket, w.key) = get_file(fs, w.bucket, w.key)]_vars

\* the keys of the objects the bucket holds
KeysOf(bucket_name) == DOMAIN BucketObjects(Storage, bucket_name)
\* the elements of a list
Elements(list) == {list[i] : i \in 1..Len(list)}
\* the key without the prefix
Remainder(file_name, prefix) == Drop(file_name, Len(OrEmpty(prefix)))
\* the objects a listing with a delimiter folds into commonPrefixes
Folded(bucket_name, prefix, delimiter) ==
    {file_name \in KeysOf(bucket_name) :
        /\ startswith(file_name, OrEmpty(prefix))
        /\ Contains(Remainder(file_name, prefix), delimiter.str)}
\* the prefix and the remainder of the key up to and including the delimiter
CommonPrefix(file_name, prefix, delimiter) ==
    OrEmpty(prefix) \o SplitFirst(Remainder(file_name, prefix), delimiter.str) \o delimiter.str
\* the last request listed an existing bucket with a delimiter
ListedWithDelimiter == resp.op = "ls" /\ resp.status = "OK" /\ Truthy(resp.a.delimiter)

\* C7: a listing with a delimiter, whatever the prefix (empty and None
\* included), returns no object whose key, without the prefix, contains the
\* delimiter; each such object is represented in commonPrefixes.
C7_DelimiterExcludes ==
    ListedWithDelimiter =>
        \A file_name \in Folded(resp.a.bucket_name, resp.a.prefix, resp.a.delimiter) :
            /\ file_name \notin Elements(resp.out.names)
            /\ CommonPrefix(file_name, resp.a.prefix, resp.a.delimiter)
                    \in Elements(resp.out.prefixes)

\* C8: a listing with a delimiter returns in commonPrefixes one entry for
\* each distinct common prefix of the folded objects, and no entry twice.
C8_CommonPrefixesDeduplicated ==
    ListedWithDelimiter =>
        /\ Elements(resp.out.prefixes) =
              {CommonPrefix(file_name, resp.a.prefix, resp.a.delimiter) :
                  file_name \in Folded(resp.a.bucket_name, resp.a.prefix, resp.a.delimiter)}
        /\ \A i, j \in 1..Len(resp.out.prefixes) :
              resp.out.prefixes[i] = resp.out.prefixes[j] => i = j

\* C9: a listing without a delimiter returns exactly the objects of the
\* bucket whose key starts with the prefix; for every delimiter the listing
\* for prefix None is the listing for prefix ""; a bucket with no objects
\* lists as no objects and no commonPrefixes; an absent bucket gives NotFound.
C9_PrefixListing ==
    /\ resp.op = "ls" =>
          LET bucket_name == resp.a.bucket_name
              Starts(file_name) == startswith(file_name, OrEmpty(resp.a.prefix))
          IN  IF bucket_name \notin DOMAIN buckets THEN resp.status = "NOT_FOUND"
              ELSE /\ resp.status = "OK"
                   /\ ~Truthy(resp.a.delimiter) =>
                        /\ Elements(resp.out.names) = {k \in KeysOf(bucket_name) : Starts(k)}
                        /\ Len(resp.out.names) = Cardinality(Elements(resp.out.names))
                        /\ \A i \in 1..Len(resp.out.names) :
                              resp.out.objs[i] = objects[bucket_name][resp.out.names[i]]
                   /\ KeysOf(bucket_name) = {} =>
                        resp.out.objs = <<>> /\ resp.out.prefixes = <<>>
    /\ \A b \in BucketNames, d \in Delimiters :
          get_file_list(Storage, b, None, d) = get_file_list(Storage, b, S(<<>>), d)

\* a bucket holding a/b and a/c has been listed with the prefix "a/b" and no
\* delimiter, and the listing is a/b alone
C9_Witness ==
    /\ resp.op = "ls"
    /\ resp.a.prefix = S(KeyAB)
    /\ resp.a.delimiter = None
    /\ KeysOf("b1") = {KeyAB, KeyAC}
    /\ resp.out.names = <<KeyAB>>

\* the requests that change the catalog
Mutating == {"create_bucket", "delete_bucket", "media_upload", "patch", "delete",
             "create_resumable_upload", "create_xml_multipart_upload",
             "upload_partial", "xml_complete_upload", "wipe"}

\* C10: at the end of every successful call that changes the catalog the
\* snapshot, loaded again, is the catalog held in memory, in its four
\* collections; and with no snapshot file the four collections load empty.
C10_SnapshotSynchronized ==
    [][/\ (resp'.op \in Mutating /\ resp'.status = "OK")
            => _read_config_from_file(fs') = Catalog(Storage')
       /\ fs'.meta = None => _read_config_from_file(fs') = EmptyCatalog]_vars

\* the requests that create an object
Creating == {"media_upload", "multipart_upload", "upload_partial",
             "xml_complete_upload", "copy", "rewrite", "compose"}

\* the object a creating request writes: its bucket, its key and the content
\* the request asks to be written, read off the request and the state before
Creation(r) ==
    CASE r.op \in {"media_upload", "multipart_upload"} ->
            [bucket |-> r.a.bucket_name, key |-> r.a.object_id, content |-> r.a.data]
      [] r.op = "upload_partial" ->
            [bucket |-> resumable[r.a.upload_id]["bucket"].str,
             key |-> resumable[r.a.upload_id]["name"].str,
             content |-> IF r.a.range = None THEN r.a.data
                         ELSE Take(Buffered(fs, r.a.upload_id) \o r.a.data,
                                   r.a.range[1].total_size)]
      [] r.op = "xml_complete_upload" ->
            [bucket |-> multipart[r.a.upload_id].bucket_name,
             key |-> multipart[r.a.upload_id].id,
             content |-> Assembled(fs, r.a.upload_id)]
      [] r.op \in {"copy", "rewrite"} ->
            [bucket |-> r.a.dest_bucket_name, key |-> r.a.dest_object_id,
             content |-> get_file(fs, r.a.bucket_name, r.a.object_id).content]
      [] r.op = "compose" ->
            [bucket |-> r.a.bucket_name, key |-> r.a.object_id,
             content |-> Joined(r.a.bucket_name, r.a.sourceObjects)]

\* the step is a request served alone, answered by resp'
Served == Quiet /\ clock' = clock /\ calls' = [t \in Threads |-> IdleCall]

\* the request created an object
Created == Served /\ resp'.op \in Creating /\ resp'.status = "OK"

\* C11: after an object is created, on any of the creation paths, its
\* resource is found, its bytes are found and are the content written, and
\* the size of the resource is the number of those bytes.
C11_RoundTrip ==
    [][Created =>
        LET c == Creation(resp')
            obj == get_file_obj(Storage', c.bucket, c.key)
            file == get_file(fs', c.bucket, c.key)
        IN  /\ obj.raised = ""
            /\ file.raised = ""
            /\ file.content = c.content
            /\ int(obj.obj["size"]) = Len(c.content)]_vars

\* an object of two bytes, composed of two objects of one byte, has been
\* rewritten to another key, where it is found with its two bytes
C11_Witness ==
    /\ resp.op = "rewrite"
    /\ resp.status = "OK"
    /\ resp.a.object_id = KeyAB
    /\ resp.a.dest_object_id = KeyAC
    /\ get_file(fs, "b1", KeyAC).content = <<"x", "x">>
    /\ int(get_file_obj(Storage, "b1", KeyAC).obj["size"]) = 2

\* the request thread t served was a media upload and it succeeded
Uploaded(t) ==
    calls[t].op = "media_upload" /\ calls[t].pc = "done" /\ calls[t].status = "OK"
\* the catalog and the content store hold what the upload of thread t wrote
Kept(t) ==
    /\ get_file_obj(Storage, calls[t].bucket_name, calls[t].file_name) =
            [raised |-> "", obj |-> calls[t].file_obj]
    /\ get_file(fs, calls[t].bucket_name, calls[t].file_name) =
            [raised |-> "", content |-> calls[t].content]
SameKey(t, u) ==
    calls[t].bucket_name = calls[u].bucket_name /\ calls[t].file_name = calls[u].file_name

\* C12: when two uploads served at the same time have both succeeded, the
\* catalog, the snapshot and the content store are those of the two uploads
\* made one after the other: each of two keys holds what its upload wrote,
\* one key holds what one of its two uploads wrote, and the snapshot is the
\* catalog.
C12_MutationsSerialized ==
    \A t \in Threads, u \in Threads :
        (t # u /\ Uploaded(t) /\ Uploaded(u))
        => /\ Kept(t) \/ (SameKey(t, u) /\ Kept(u))
           /\ _read_config_from_file(fs) = Catalog(Storage)

\* C13: the bytes and the resource a download returns belong to one version
\* of the object, whatever upload to its key is served at the same time: the
\* resource carries the size and the checksum of the bytes.
C13_ReadsOneVersion ==
    \A t \in Threads :
        (calls[t].op = "download" /\ calls[t].pc = "done" /\ calls[t].status = "OK")
        => /\ int(calls[t].obj["size"]) = Len(calls[t].file)
           /\ calls[t].obj["crc32c"] = _crc32c(calls[t].file)
           /\ calls[t].obj["md5Hash"] = _md5(calls[t].file)

\* C14: the id a session creation returns is the id of no session of that
\* kind live in the catalog, also when the bucket, the key and the clock
\* reading are those of an earlier creation; and every live session is left
\* as it was.
C14_SessionIdsUnique ==
    [][/\ (Served /\ resp'.op = "create_resumable_upload" /\ resp'.status = "OK")
            => /\ resp'.out.id \notin DOMAIN resumable
               /\ \A id \in DOMAIN resumable :
                     id \in DOMAIN resumable' /\ resumable'[id] = resumable[id]
       /\ (Served /\ resp'.op = "create_xml_multipart_upload" /\ resp'.status = "OK")
            => /\ resp'.out.id \notin DOMAIN multipart
               /\ \A id \in DOMAIN multipart :
                     id \in DOMAIN multipart' /\ multipart'[id] = multipart[id]]_vars

\* C15: a chunk that leaves the upload incomplete is answered with the range
\* 0..(n - 1), n being the number of bytes the buffer of the session holds
\* after the chunk.
C15_RangeReported ==
    [][\A id \in DOMAIN resumable :
        (/\ resp'.op = "upload_partial"
         /\ resp'.a.upload_id = id
         /\ resp'.status = "RESUME_INCOMPLETE"
         /\ UploadPartial(id, resp'.a.range, resp'.a.data))
        => resp'.out.Range = <<0, Len(Buffered(fs', id)) - 1>>]_vars

\* C16: the resource of an object has metageneration "1" right after the
\* object is created, on any of the creation paths.
C16_MetagenerationStartsAtOne ==
    [][Created =>
        LET c == Creation(resp')
        IN  Get(get_file_obj(Storage', c.bucket, c.key).obj, "metageneration") = str(1)]_vars

\* the request was a PATCH of an object the bucket holds and it succeeded
Patched(bucket_name, object_id) ==
    /\ resp'.op = "patch"
    /\ resp'.status = "OK"
    /\ resp'.a.bucket_name = bucket_name
    /\ resp'.a.object_id = object_id
    /\ get_file_obj(Storage, bucket_name, object_id).raised = ""
    /\ Patch(bucket_name, object_id, resp'.a.meta)

\* the instant a customTime string stands for, in tenths of a second
Digit(c) == ord(c) - 2
Instant(t) ==
    LET chars == t.str
    IN  (Digit(chars[1]) * 10 + Digit(chars[2])) * 10
            + (IF chars[3] = "." THEN Digit(chars[4]) ELSE 0)

\* the patch carries a customTime older than the one stored
Older(obj, metadata) ==
    /\ Get(metadata, "customTime") # None
    /\ Get(obj, "customTime") # None
    /\ Instant(metadata["customTime"]) < Instant(obj["customTime"])

\* C17: a successful PATCH of an object raises its metageneration by one,
\* stores each allow-listed field the patch carries, but for a customTime
\* older than the stored one, and leaves the other fields of the resource
\* and the bytes of the object as they were.
C17_PatchFrame ==
    [][\A bk \in Targets :
        Patched(bk[1], bk[2])
        => LET old == objects[bk[1]][bk[2]]
               new == objects'[bk[1]][bk[2]]
               metadata == resp'.a.meta
           IN  /\ int(new["metageneration"]) = int(old["metageneration"]) + 1
               /\ \A key \in _WRITABLE_FIELDS \cap DOMAIN metadata :
                     (key = "customTime" /\ Older(old, metadata)) \/ new[key] = metadata[key]
               /\ \A key \in DOMAIN old \ (_WRITABLE_FIELDS \cup {"metageneration"}) :
                     key \in DOMAIN new /\ new[key] = old[key]
               /\ get_file(fs', bk[1], bk[2]) = get_file(fs, bk[1], bk[2])]_vars

\* C18: a successful PATCH never leaves an object with a customTime older
\* than the one it had; a patch whose customTime is older than the stored one
\* leaves the customTime as it was and still stores every other allow-listed
\* field it carries.
C18_CustomTimeMonotonic ==
    [][\A bk \in Targets :
        Patched(bk[1], bk[2])
        => LET old == objects[bk[1]][bk[2]]
               new == objects'[bk[1]][bk[2]]
               metadata == resp'.a.meta
           IN  /\ Get(old, "customTime") # None
                    => /\ Get(new, "customTime") # None
                       /\ Instant(new["customTime"]) >= Instant(old["customTime"])
               /\ Older(old, metadata)
                    => /\ new["customTime"] = old["customTime"]
                       /\ \A key \in (_WRITABLE_FIELDS \cap DOMAIN metadata) \ {"customTime"} :
                             new[key] = metadata[key]]_vars

\* every key other than file_name of bucket_name has the resource it had, or
\* none as before, and every object under such a key has the bytes it had
OthersUnchanged(bucket_name, file_name) ==
    \A other \in Aliases \ {<<bucket_name, file_name>>} :
        /\ get_file_obj(Storage', other[1], other[2]) = get_file_obj(Storage, other[1], other[2])
        /\ get_file_obj(Storage, other[1], other[2]).raised = ""
             => get_file(fs', other[1], other[2]) = get_file(fs, other[1], other[2])

\* a media upload to a key that held an object has been served
Replaced(bucket_name, file_name) ==
    /\ Served
    /\ resp'.op = "media_upload"
    /\ resp'.status = "OK"
    /\ resp'.a.bucket_name = bucket_name
    /\ resp'.a.object_id = file_name
    /\ get_file_obj(Storage, bucket_name, file_name).raised = ""

\* C19: an upload to a key that already holds an object leaves, under that
\* key, the resource and the bytes of the upload and nothing of the object it
\* replaces, and leaves the resource and the bytes of every other key, of
\* this bucket and of the others, as they were.
C19_CreateReplaces ==
    [][\A bk \in Aliases :
        Replaced(bk[1], bk[2])
        => LET data == resp'.a.data
               made == _make_object_resource(bk[1], bk[2], ContentType, str(Len(data)), EmptyDict)
           IN  /\ get_file_obj(Storage', bk[1], bk[2]) =
                        [raised |-> "", obj |-> checksums(data, made).obj]
               /\ get_file(fs', bk[1], bk[2]) = [raised |-> "", content |-> data]
               /\ OthersUnchanged(bk[1], bk[2])]_vars

\* a deletion of the key has been served
Deleted(bucket_name, file_name) ==
    /\ Served
    /\ resp'.op = "delete"
    /\ resp'.a.bucket_name = bucket_name
    /\ resp'.a.object_id = file_name

\* C20: the deletion of a key that holds no object is answered "not found";
\* the deletion of a key that holds one succeeds, also when the file of its
\* bytes is no longer there, after it neither the resource nor the bytes of
\* the key are found, and every other object has the resource and the bytes
\* it had.
C20_Delete ==
    [][\A bk \in Aliases :
        Deleted(bk[1], bk[2])
        => IF get_file_obj(Storage, bk[1], bk[2]).raised # ""
           THEN resp'.status = "NOT_FOUND"
           ELSE /\ resp'.status = "OK"
                /\ get_file_obj(Storage', bk[1], bk[2]).raised = "NotFound"
                /\ get_file(fs', bk[1], bk[2]).raised = "NotFound"
                /\ OthersUnchanged(bk[1], bk[2])]_vars

\* C21: a chunk with no Content-Range of the form "bytes start-end/total",
\* sent for a live session, completes the session: the object under the
\* session's key holds the bytes of that request and none of the bytes the
\* buffer held, and the session record and the buffer are removed.
C21_UnrangedCompletes ==
    [][\A id \in DOMAIN resumable :
        (/\ resp'.op = "upload_partial"
         /\ resp'.a.upload_id = id
         /\ resp'.a.range = None
         /\ UploadPartial(id, None, resp'.a.data))
        => LET bucket_name == resumable[id]["bucket"].str
               file_name == resumable[id]["name"].str
           IN  /\ resp'.status = "OK"
               /\ get_file_obj(Storage', bucket_name, file_name).raised = ""
               /\ get_file(fs', bucket_name, file_name) =
                        [raised |-> "", content |-> resp'.a.data]
               /\ id \notin DOMAIN resumable'
               /\ safe_id(id) \notin DOMAIN fs'.resumable]_vars

\* thread t has served a part upload with success
PartSent(t) ==
    /\ calls[t].pc = "done"
    /\ calls[t].op = "xml_part_upload"
    /\ calls[t].status = "OK"

\* the part that thread t has sent is stored with the bytes of its request
PartKept(t) ==
    LET part_file_id == PartFileId(safe_id(calls[t].upload_id), calls[t].part_number)
    IN  /\ part_file_id \in DOMAIN fs.multipart
        /\ fs.multipart[part_file_id] = calls[t].content

\* C22: when two part uploads for one upload id and two part numbers have
\* been served at the same time, each of the two parts is stored with the
\* bytes of its request.
C22_PartsIndependent ==
    \A t, u \in Threads :
        (/\ t # u
         /\ PartSent(t) /\ PartSent(u)
         /\ calls[t].upload_id = calls[u].upload_id
         /\ calls[t].part_number # calls[u].part_number)
        => PartKept(t) /\ PartKept(u)

\* two part uploads with the part numbers 1 and 2 have been served at the
\* same time
C22_Witness ==
    /\ PartSent(1) /\ PartSent(2)
    /\ calls[1].upload_id = calls[2].upload_id
    /\ calls[1].part_number = 1 /\ calls[1].content = <<"x">>
    /\ calls[2].part_number = 2 /\ calls[2].content = <<"y">>
    /\ PartKept(1) /\ PartKept(2)

\* C23: a NotFound of the engine is answered "not found" and a Conflict of
\* the engine "bad request": by the upload handlers (absent bucket, checksum
\* mismatch), by delete, and for each PATCH and DELETE item of a batch
\* request, a refused deletion of a bucket included.
C23_ErrorsMapped ==
    [][Served =>
        /\ resp'.op = "batch" =>
              \A i \in 1..Len(resp'.out.items) :
                  /\ resp'.out.items[i].raised = "NotFound"
                        => resp'.out.items[i].line = "NOT_FOUND"
                  /\ resp'.out.items[i].raised = "Conflict"
                        => resp'.out.items[i].line = "BAD_REQUEST"
        /\ resp'.op = "delete" =>
              (delete_file(Storage, resp'.a.bucket_name, resp'.a.object_id).raised = "NotFound"
                  => resp'.status = "NOT_FOUND")
        /\ resp'.op \in {"media_upload", "multipart_upload"} =>
              LET a == resp'.a
                  obj == _make_object_resource(a.bucket_name, a.object_id, ContentType,
                                               str(Len(a.data)), a.meta)
                  c == checksums(a.data, obj)
              IN  /\ c.raised = "Conflict" => resp'.status = "BAD_REQUEST"
                  /\ (c.raised = "" /\ a.bucket_name \notin DOMAIN buckets)
                        => resp'.status = "NOT_FOUND"]_vars

\* C24: between requests, the catalog holds a resource for a bucket and a key
\* exactly when the content store holds bytes for them, and the size of the
\* resource is then the number of those bytes.
C24_CatalogMatchesStore ==
    /\ \A b \in DOMAIN objects : \A k \in DOMAIN objects[b] :
          LET file == get_file(fs, b, k) IN
          /\ file.raised = ""
          /\ Get(objects[b][k], "size") # None
          /\ int(objects[b][k]["size"]) = Len(file.content)
    /\ \A p \in DOMAIN fs.files :
          \E k \in DOMAIN BucketObjects(Storage, p[1]) : normpath(k) = p[2]

\* the answers and outcomes that stand for a NotFound or a Conflict
Failed == {"NOT_FOUND", "BAD_REQUEST", "NotFound", "Conflict"}

\* C25: a call that fails with NotFound or Conflict leaves the catalog in
\* memory, the snapshot and the content store, the buffers of the resumable
\* sessions and the parts included, as they were before the call.
C25_FailureChangesNothing ==
    [][(Served /\ resp'.status \in Failed) => Storage' = Storage]_vars

\* the crc32c and the md5Hash of the resource are the checksums of the bytes
\* the content store holds for the object
ChecksumsMatch(st, bucket_name, file_name) ==
    LET obj == st.objects[bucket_name][file_name]
        file == get_file(st.fs, bucket_name, file_name)
    IN  /\ file.raised = ""
        /\ Get(obj, "crc32c") = _crc32c(file.content)
        /\ Get(obj, "md5Hash") = _md5(file.content)

ChecksumPatched(bucket_name, file_name) ==
    /\ resp'.op = "patch"
    /\ resp'.a.bucket_name = bucket_name
    /\ resp'.a.object_id = file_name
    /\ DOMAIN resp'.a.meta \cap {"crc32c", "md5Hash"} # {}

C27_KeysOpaque ==
    [][(/\ Served
        /\ resp'.op = "media_upload"
        /\ resp'.a.bucket_name \in DOMAIN buckets)
       => LET bucket_name == resp'.a.bucket_name
              file_name == resp'.a.object_id
          IN  /\ resp'.status = "OK"
              /\ get_file_obj(Storage', bucket_name, file_name).raised = ""
              /\ get_file(fs', bucket_name, file_name) =
                       [raised |-> "", content |-> resp'.a.data]
              /\ \A other \in Keys \ {file_name} :
                    get_file_obj(Storage, bucket_name, other).raised = ""
                    => /\ get_file_obj(Storage', bucket_name, other) =
                               get_file_obj(Storage, bucket_name, other)
                       /\ get_file(fs', bucket_name, other) =
                               get_file(fs, bucket_name, other)]_vars

\* the last request served completed a session: a chunk that stored the
\* object of a resumable session, or the complete of a multipart upload
JustCompleted ==
    /\ resp.op \in {"upload_partial", "xml_complete_upload"}
    /\ resp.status = "OK"

\* the request served is a chunk, an addPart or a complete that carries the
\* id of the session the last request completed
SentAgain ==
    /\ Served
    /\ \/ resp.op = "upload_partial" /\ resp'.op = "upload_partial"
       \/ /\ resp.op = "xml_complete_upload"
          /\ resp'.op \in {"xml_part_upload", "xml_complete_upload"}
    /\ resp'.a.upload_id = resp.a.upload_id

\* C28: a chunk, an addPart or a complete that carries the id of a session
\* that has completed fails with NotFound and leaves the resource and the
\* bytes of every object as they were.
C28_CompletedTerminal ==
    [][(JustCompleted /\ SentAgain)
       => /\ resp'.status = "NOT_FOUND"
          /\ \A bk \in Targets :
                /\ get_file_obj(Storage', bk[1], bk[2]) = get_file_obj(Storage, bk[1], bk[2])
                /\ get_file(fs', bk[1], bk[2]) = get_file(fs, bk[1], bk[2])]_vars

\* the same, of the sessions of resumable uploads only
C28_ResumableTerminal ==
    [][(JustCompleted /\ SentAgain /\ resp.op = "upload_partial")
       => /\ resp'.status = "NOT_FOUND"
          /\ \A bk \in Targets :
                /\ get_file_obj(Storage', bk[1], bk[2]) = get_file_obj(Storage, bk[1], bk[2])
                /\ get_file(fs', bk[1], bk[2]) = get_file(fs, bk[1], bk[2])]_vars

\* C29: every bucket that has an object in the object index is a bucket of
\* the bucket map.
C29_ObjectsInBuckets ==
    \A bucket_name \in DOMAIN objects :
        DOMAIN objects[bucket_name] # {} => bucket_name \in DOMAIN buckets

\* C30: add_to_resumable_upload called with a file id that is not that of a
\* session of the catalog raises NotFound and stores no bytes in the
\* _resumable container: no buffer is created and none is changed.
C30_UnknownSessionRejected ==
    [][(/\ Served
        /\ resp'.op = "add_to_resumable_upload"
        /\ resp'.a.upload_id \notin DOMAIN resumable)
       => /\ resp'.status = "NotFound"
          /\ fs'.resumable = fs.resumable]_vars

\* a wipe has been served
Wiped == Served /\ resp'.op = "wipe"

\* what a wipe leaves apart from the multipart sessions: no object and no
\* resumable session in the catalog, no object bytes, no buffer and no part
\* in the content store, and no bucket, or the buckets there were when
\* keep_buckets is set
WipedButMultipart ==
    /\ objects' = EmptyDict
    /\ resumable' = EmptyDict
    /\ fs'.files = EmptyDict
    /\ fs'.resumable = EmptyDict
    /\ fs'.multipart = EmptyDict
    /\ buckets' = IF resp'.a.keep_buckets THEN buckets ELSE EmptyDict

\* C31: after a wipe the catalog has no object, no resumable session and no
\* multipart session, the content store holds no object bytes, no buffer and
\* no part, and the bucket map is empty, or is the bucket map of before the
\* call when keep_buckets is set.
C31_Wipe == [][Wiped => (WipedButMultipart /\ multipart' = EmptyDict)]_vars

\* the same, but for the multipart sessions
C31_WipeButMultipart == [][Wiped => WipedButMultipart]_vars

====
